---- MODULE Spec2Model ----
(***************************************************************************)
(* SQL Mentor: the tutor agent (mentor.py / sql_agent.py) and the          *)
(* Streamlit form UI (app.py).                                             *)
(*                                                                         *)
(* Texts (prompts, model responses, error messages) are sequences of       *)
(* string tokens; "a + b" of the source is a \o b.  A Python dict is a     *)
(* function whose DOMAIN is the set of keys present.                       *)
(***************************************************************************)
EXTENDS Integers, Sequences, FiniteSets, TLC

VARIABLES
  env,      \* os.getenv("GOOGLE_API_KEY"): "" when unset
  genai,    \* the key genai.configure() was last given, "" when never called
  file,     \* committed content of the sample.db file: table name -> rows
  agent,    \* the SQLMentorAgent object (model handle, sqlite connection)
  peer,     \* the SQLMentorAgent of a second UI session of the same process
  ss,       \* st.session_state of the UI session: key -> value
  widgets,  \* current values of the UI's input widgets
  last      \* what the last operation / script run did (observation only)

vars == <<env, genai, file, agent, peer, ss, widgets, last>>

----------------------------------------------------------------------------
(* Bounds *)

\* the learning history is capped at this many entries
MaxHistory == 2

----------------------------------------------------------------------------
(* The embedded relational store *)

NoTables == [t \in {} |-> {}]

\* mentor.py:78-102, the seed rows (primary keys; enrollments as pairs)
students == {1, 2, 3, 4, 5}

courses == {101, 102, 103, 104}

enrollments == {<<1, 101>>, <<1, 102>>, <<2, 101>>, <<3, 103>>,
                <<4, 102>>, <<4, 104>>, <<5, 101>>, <<5, 103>>}

\* the store right after CREATE TABLE x3, executemany x3 and commit
SeededStore ==
  [t \in {"students", "courses", "enrollments"} |->
     CASE t = "students" -> students
       [] t = "courses" -> courses
       [] OTHER -> enrollments]

\* the query strings a user types (inputs of execute_sql)
Queries == {
  "SELECT * FROM students",
  "SELECT * FROM nonexistent_table",
  "SELEC * FROM students",
  "INSERT INTO students VALUES (1, 'Zed', 15, 70, 'z@school.edu')",
  "INSERT INTO students VALUES (6, 'Zed', 15, 70, 'z@school.edu')",
  "DELETE FROM enrollments",
  "DROP TABLE students",
  "DROP TABLE courses",
  "DROP TABLE enrollments",
  "CREATE TABLE notes (t TEXT)" }

\* sql_agent.py:77-83, the name column of the students rows (6: the row
\* the INSERT of Queries adds)
student_name(id) ==
  CASE id = 1 -> "Alice Johnson"
    [] id = 2 -> "Bob Smith"
    [] id = 3 -> "Charlie Brown"
    [] id = 4 -> "Diana Prince"
    [] id = 5 -> "Ethan Hunt"
    [] OTHER -> "Zed"

\* what the engine's parser makes of a query string: keywords and table
\* names in either letter case, string literals as written
Parse(q) ==
  CASE q = "SELECT * FROM students" -> [kind |-> "select", table |-> "students", row |-> 0]
    [] q = "SELECT * FROM nonexistent_table" -> [kind |-> "select", table |-> "nonexistent_table", row |-> 0]
    [] q = "INSERT INTO students VALUES (1, 'Zed', 15, 70, 'z@school.edu')" -> [kind |-> "insert", table |-> "students", row |-> 1]
    [] q = "INSERT INTO students VALUES (6, 'Zed', 15, 70, 'z@school.edu')" -> [kind |-> "insert", table |-> "students", row |-> 6]
    [] q = "DELETE FROM enrollments" -> [kind |-> "delete", table |-> "enrollments", row |-> 0]
    [] q = "DROP TABLE students" -> [kind |-> "drop", table |-> "students", row |-> 0]
    [] q = "DROP TABLE courses" -> [kind |-> "drop", table |-> "courses", row |-> 0]
    [] q = "DROP TABLE enrollments" -> [kind |-> "drop", table |-> "enrollments", row |-> 0]
    [] q = "CREATE TABLE notes (t TEXT)" -> [kind |-> "create", table |-> "notes", row |-> 0]
    [] q = "select * from students" -> [kind |-> "select", table |-> "students", row |-> 0]
    [] q = "drop table students" -> [kind |-> "drop", table |-> "students", row |-> 0]
    [] q = "delete from enrollments" -> [kind |-> "delete", table |-> "enrollments", row |-> 0]
    [] q = "SELECT * FROM students WHERE name = 'Bob Smith'" -> [kind |-> "select_where", table |-> "students", row |-> 0, name |-> "Bob Smith"]
    [] q = "select * from students where name = 'bob smith'" -> [kind |-> "select_where", table |-> "students", row |-> 0, name |-> "bob smith"]
    [] OTHER -> [kind |-> "syntax", table |-> "", row |-> 0]

DropTable(view, t) == [u \in (DOMAIN view) \ {t} |-> view[u]]

AddTable(view, t) == [u \in (DOMAIN view) \cup {t} |-> IF u = t THEN {} ELSE view[u]]

\* sqlite: one statement against a connection's view of the store.
\* ok = FALSE: the engine rejects the statement (err is its message).
\* ok = TRUE: described = FALSE when the statement returns no result set
\* (cursor.description is None).
sqlite_execute(view, q) ==
  LET s == Parse(q)
      rejected(msg) == [ok |-> FALSE, err |-> msg, described |-> FALSE,
                        rows |-> {}, view |-> view, dml |-> FALSE]
      done(v, isdml) == [ok |-> TRUE, err |-> <<>>, described |-> FALSE,
                         rows |-> {}, view |-> v, dml |-> isdml]
  IN CASE s.kind = "syntax" -> rejected(<<"near \"SELEC\": syntax error">>)
       [] s.kind = "create" ->
            IF s.table \in DOMAIN view
              THEN rejected(<<"table ", s.table, " already exists">>)
              ELSE done(AddTable(view, s.table), FALSE)
       [] s.table \notin DOMAIN view -> rejected(<<"no such table: ", s.table>>)
       [] s.kind = "select" ->
            [ok |-> TRUE, err |-> <<>>, described |-> TRUE,
             rows |-> view[s.table], view |-> view, dml |-> FALSE]
       [] s.kind = "select_where" ->
            [ok |-> TRUE, err |-> <<>>, described |-> TRUE,
             rows |-> {id \in view[s.table] : student_name(id) = s.name},
             view |-> view, dml |-> FALSE]
       [] s.kind = "insert" ->
            IF s.row \in view[s.table]
              THEN rejected(<<"UNIQUE constraint failed: ", s.table, ".id">>)
              ELSE done([view EXCEPT ![s.table] = @ \cup {s.row}], TRUE)
       [] s.kind = "delete" -> done([view EXCEPT ![s.table] = {}], TRUE)
       [] OTHER -> done(DropTable(view, s.table), FALSE)

----------------------------------------------------------------------------
(* SQLMentorAgent *)

NoAgent == [alive |-> FALSE]

\* the agent's connection: view is what its cursor sees, in_transaction is
\* TRUE while a data-modifying statement is uncommitted
NewAgent(module, store) ==
  [alive |-> TRUE, module |-> module, model_name |-> "gemini-1.5-pro",
   db_path |-> "sample.db", view |-> store, in_transaction |-> FALSE,
   chat_history |-> <<>>, student_progress |-> NoTables]

\* a bootstrap that forgets the enrollments rows
initialize_sample_db_no_enrollments(store) ==
  IF DOMAIN store = {}
    THEN [store |-> [SeededStore EXCEPT !["enrollments"] = {}],
          creates |-> 3, inserts |-> 2, commits |-> 1]
    ELSE [store |-> store, creates |-> 0, inserts |-> 0, commits |-> 0]

\* a bootstrap that re-creates and re-seeds whichever sample table is missing
initialize_sample_db_repair(store) ==
  LET missing == (DOMAIN SeededStore) \ (DOMAIN store)
  IN [store |-> [t \in (DOMAIN store) \cup (DOMAIN SeededStore) |->
                   IF t \in DOMAIN store THEN store[t] ELSE SeededStore[t]],
      creates |-> Cardinality(missing), inserts |-> Cardinality(missing),
      commits |-> IF missing = {} THEN 0 ELSE 1]

\* _initialize_sample_db: the store after the bootstrap, and what it ran
initialize_sample_db(store) ==
  IF DOMAIN store = {}
    THEN [store |-> SeededStore, creates |-> 3, inserts |-> 3, commits |-> 1]
    ELSE [store |-> store, creates |-> 0, inserts |-> 0, commits |-> 0]

\* api_key = api_key or os.getenv("GOOGLE_API_KEY")
ResolveKey(api_key, environ) == IF api_key # "" THEN api_key ELSE environ

\* a constructor that goes on without a key
Construct_without_check(module, api_key, environ, configured, store) ==
  LET key == ResolveKey(api_key, environ)
      boot == initialize_sample_db(store)
  IN [raised |-> FALSE, exc |-> <<>>, agent |-> NewAgent(module, boot.store),
      genai |-> key, file |-> boot.store, boot |-> boot, ran_boot |-> TRUE]

\* SQLMentorAgent.__init__: a new connection sees the committed file
Construct(module, api_key, environ, configured, store) ==
  LET key == ResolveKey(api_key, environ)
      boot == initialize_sample_db(store)
  IN IF key = ""
       THEN [raised |-> TRUE, exc |-> <<"ValueError">>, agent |-> NoAgent,
             genai |-> configured, file |-> store, boot |-> [store |-> store,
             creates |-> 0, inserts |-> 0, commits |-> 0], ran_boot |-> FALSE]
       ELSE [raised |-> FALSE, exc |-> <<>>, agent |-> NewAgent(module, boot.store),
             genai |-> key, file |-> boot.store, boot |-> boot, ran_boot |-> TRUE]

----------------------------------------------------------------------------
(* The external model service and ask_gemini *)

\* response bodies the hosted model may produce
WellFormed == <<"Problem:", "List all students", "Hints:", "1. Use SELECT",
                "Solution:", "SELECT * FROM students",
                "Expected Output:", "all rows">>

NoProblemMarker == <<"Here is an exercise", "Hints:", "1. Use SELECT",
                     "Solution:", "SELECT * FROM students">>

NoHintsMarker == <<"Problem:", "List all students",
                   "Solution:", "SELECT * FROM students">>

NoSolutionMarker == <<"Problem:", "List all students", "Hints:", "1. Use SELECT">>

Feedback == <<"- Correctness: ", "Correct">>

JsonBody == <<"{", "\"answer\": 1", "}">>

\* what one call of model.generate_content can come to
Outcomes ==
  [kind : {"ok"}, body : {WellFormed, NoProblemMarker, NoHintsMarker,
                          NoSolutionMarker, Feedback, JsonBody}]
  \cup [kind : {"fail"}, body : {<<"429 quota exceeded">>}]

\* the outcomes of a call that asks for free-text feedback
FeedbackOutcomes == {o \in Outcomes : o.kind = "fail" \/ o.body = Feedback}

\* the outcomes of a call that asks for a practice problem
PracticeOutcomes == {o \in Outcomes : o.body \notin {Feedback, JsonBody}}

\* Python values: a str is [py |-> "str", v |-> tokens], a dict is
\* [py |-> "dict", v |-> key -> value]
Str(tokens) == [py |-> "str", v |-> tokens]

Dict(d) == [py |-> "dict", v |-> d]

\* json.loads on a response body
json_loads(body) ==
  IF Len(body) >= 2 /\ body[1] = "{" /\ body[Len(body)] = "}"
    THEN [ok |-> TRUE, value |-> Dict([members |-> SubSeq(body, 2, Len(body) - 1)]),
          err |-> <<>>]
    ELSE [ok |-> FALSE, value |-> Dict(<<>>),
          err |-> <<"Expecting value: line 1 column 1 (char 0)">>]

GenerateEvent(prompt) == [ev |-> "generate_content", arg |-> prompt]

\* the try block of ask_gemini: one generate_content call, then in
\* structured mode json.loads of the response text (parsed)
ask_gemini_parsed(structured_output, o, parsed) ==
  IF o.kind = "fail"
    THEN [raised |-> TRUE, exc |-> o.body, value |-> Str(<<>>)]
  ELSE IF structured_output
    THEN [raised |-> ~parsed.ok, exc |-> parsed.err, value |-> parsed.value]
    ELSE [raised |-> FALSE, exc |-> <<>>, value |-> Str(o.body)]

ask_gemini_try(prompt, structured_output, o) ==
  ask_gemini_parsed(structured_output, o, json_loads(o.body))

\* the except clause of ask_gemini
ask_gemini_except(structured_output, e) ==
  IF structured_output THEN Dict([error |-> e]) ELSE Str(<<"Error: ">> \o e)

\* an ask_gemini whose handler covers the transport call only
ask_gemini_parse_escapes(prompt, structured_output, o) ==
  [raised |-> ask_gemini_try(prompt, structured_output, o).raised /\ o.kind = "ok",
   events |-> <<GenerateEvent(prompt)>>,
   ret |-> IF o.kind = "fail"
             THEN ask_gemini_except(structured_output, o.body)
             ELSE ask_gemini_try(prompt, structured_output, o).value]

\* ask_gemini once its try block has returned or raised (t)
ask_gemini_caught(prompt, structured_output, t) ==
  [raised |-> FALSE,
   events |-> <<GenerateEvent(prompt)>>,
   ret |-> IF t.raised THEN ask_gemini_except(structured_output, t.exc)
           ELSE t.value]

\* SQLMentorAgent.ask_gemini with the outcome o of its generate_content call
ask_gemini(prompt, structured_output, o) ==
  ask_gemini_caught(prompt, structured_output,
                    ask_gemini_try(prompt, structured_output, o))

----------------------------------------------------------------------------
(* execute_sql and the operations built on it *)

\* pandas.read_sql_query(query, conn): the statement runs on the connection;
\* a statement the engine rejects rolls the connection back and raises
\* DatabaseError; a statement without result set raises TypeError after it
\* has taken effect.  Statements outside a transaction that change the
\* schema are committed at once; INSERT/DELETE open a transaction.
read_sql_result(query, ag, store, r) ==
  IF ~r.ok
    THEN [raised |-> TRUE,
          exc |-> <<"Execution failed on sql '", query, "': ">> \o r.err,
          rows |-> {},
          agent |-> [ag EXCEPT !.view = store, !.in_transaction = FALSE],
          file |-> store]
    ELSE [raised |-> ~r.described,
          exc |-> IF r.described THEN <<>>
                  ELSE <<"'NoneType' object is not iterable">>,
          rows |-> r.rows,
          agent |-> [ag EXCEPT !.view = r.view,
                               !.in_transaction = ag.in_transaction \/ r.dml],
          file |-> IF ag.in_transaction \/ r.dml THEN store ELSE r.view]

read_sql_query(query, ag, store) ==
  read_sql_result(query, ag, store, sqlite_execute(ag.view, query))

\* the "data" member of a successful result: mentor.py returns the frame,
\* sql_agent.py its df.to_string(index=False)
ResultData(module, rows) ==
  IF module = "mentor"
    THEN [form |-> "DataFrame", rows |-> rows]
    ELSE [form |-> "str", rows |-> rows]

ExecuteEvent(query) == [ev |-> "read_sql_query", arg |-> <<query>>]

\* the result dict of execute_sql for what its try block (r) came to
ResultDict(module, r) ==
  IF r.raised
    THEN [success |-> FALSE, error |-> r.exc]
    ELSE [success |-> TRUE, data |-> ResultData(module, r.rows)]

\* an execute_sql without its try/except
execute_sql_unguarded(ag, store, query) ==
  [raised |-> read_sql_query(query, ag, store).raised,
   events |-> <<ExecuteEvent(query)>>,
   ret |-> ResultDict(ag.module, read_sql_query(query, ag, store)),
   agent |-> read_sql_query(query, ag, store).agent,
   file |-> read_sql_query(query, ag, store).file]

\* execute_sql once read_sql_query has returned or raised (r)
execute_sql_caught(module, query, r) ==
  [raised |-> FALSE,
   events |-> <<ExecuteEvent(query)>>,
   ret |-> ResultDict(module, r),
   agent |-> r.agent,
   file |-> r.file]

\* SQLMentorAgent.execute_sql
execute_sql(ag, store, query) ==
  execute_sql_caught(ag.module, query, read_sql_query(query, ag, store))

\* the text embedded below "Execution Result:": the frame's to_string() in
\* mentor.py, the data itself in sql_agent.py, nothing after a failure
DataText(res) == IF res.success THEN ToString(res.data.rows) ELSE ""

\* "Success" if execution_result["success"] else "Failed: " + error
OutcomeText(res) == IF res.success THEN <<"Success">> ELSE <<"Failed: ">> \o res.error

\* a prompt that reports a failure without the error text
EvaluatePrompt_without_error(question, student_query, res) ==
  <<"Evaluate this SQL query:", "Question: ", question,
    "Student's Query: ", student_query, "Execution Result: ">>
  \o <<OutcomeText(res)[1]>> \o <<DataText(res)>>
  \o <<"Provide feedback with:", "Format as:">>

EvaluatePrompt(question, student_query, res) ==
  <<"Evaluate this SQL query:", "Question: ", question,
    "Student's Query: ", student_query, "Execution Result: ">>
  \o OutcomeText(res) \o <<DataText(res)>>
  \o <<"Provide feedback with:", "Format as:">>

\* the result of an operation that ran execute_sql (x) and then asked the
\* model (asked)
ExecutedThenAsked(x, asked) ==
  [raised |-> x.raised \/ asked.raised, events |-> x.events \o asked.events,
   ret |-> asked.ret, executed |-> x.ret, agent |-> x.agent, file |-> x.file]

\* evaluate_student_query from its second statement on
evaluate_executed(question, student_query, x, o) ==
  ExecutedThenAsked(x, ask_gemini(EvaluatePrompt(question, student_query, x.ret),
                                  FALSE, o))

\* SQLMentorAgent.evaluate_student_query
evaluate_student_query(ag, store, question, student_query, o) ==
  evaluate_executed(question, student_query, execute_sql(ag, store, student_query), o)

ExplainPrompt(concept, student_level) ==
  <<"Explain this SQL concept to a ", student_level, " student: ", concept,
    "Include:", "Use friendly, simple language with real-world analogies.">>

\* SQLMentorAgent.explain_concept
explain_concept(concept, student_level, o) ==
  ask_gemini(ExplainPrompt(concept, student_level), FALSE, o)

PracticePrompt(concepts, difficulty) ==
  <<"Create an SQL practice problem about: ", concepts, "Difficulty: ", difficulty,
    "Our database has:", "Provide:", "Format as:",
    "Problem:", "[description]", "Hints:", "1. [hint 1]", "2. [hint 2]",
    "Solution:", "[SQL query]", "Expected Output:", "[description]">>

\* SQLMentorAgent.generate_practice_problem
generate_practice_problem(concepts, difficulty, o) ==
  ask_gemini(PracticePrompt(concepts, difficulty), FALSE, o)

----------------------------------------------------------------------------
(* Initial state *)

NoSession == [k \in {} |-> FALSE]

DefaultWidgets ==
  [concept |-> "", topic |-> "", difficulty |-> "Beginner", question |-> "",
   user_query |-> "", query |-> "", user_solution |-> "", progress |-> 25]

Init ==
  /\ env \in {"", "key-from-env"}
  /\ genai = ""
  /\ file = NoTables
  /\ agent = NoAgent
  /\ peer = NoAgent
  /\ ss = NoSession
  /\ widgets = DefaultWidgets
  /\ last = [op |-> "start"]

----------------------------------------------------------------------------
(* The agent driven directly (sql_agent.py main, tests) *)

Modules == {"mentor", "sql_agent"}

ApiKeys == {"", "key-from-arg"}

Questions == {"list all students"}

Concepts == {"JOIN"}

\* agent = SQLMentorAgent(api_key): on an exception nothing is assigned
InitStep(api_key, c) ==
  /\ agent' = IF c.raised THEN agent ELSE c.agent
  /\ genai' = c.genai
  /\ file' = c.file
  /\ last' = [op |-> "__init__", api_key |-> api_key, raised |-> c.raised,
              found |-> file, boot |-> c.boot, ran_boot |-> c.ran_boot]
  /\ UNCHANGED <<env, peer, ss, widgets>>

AgentInit ==
  \E module \in Modules, api_key \in ApiKeys :
    InitStep(api_key, Construct(module, api_key, env, genai, file))

ExecuteSqlStep(query, r, engine) ==
  /\ agent' = r.agent
  /\ file' = r.file
  /\ last' = [op |-> "execute_sql", query |-> query, raised |-> r.raised,
              rejected |-> ~engine.ok, ret |-> r.ret, events |-> r.events,
              before |-> agent.view]
  /\ UNCHANGED <<env, genai, peer, ss, widgets>>

AgentExecuteSql ==
  /\ agent.alive
  /\ \E query \in Queries :
       ExecuteSqlStep(query, execute_sql(agent, file, query),
                      sqlite_execute(agent.view, query))

EvaluateStep(query, o, r, engine) ==
  /\ agent' = r.agent
  /\ file' = r.file
  /\ last' = [op |-> "evaluate_student_query", query |-> query,
              raised |-> r.raised, o |-> o, executed |-> r.executed,
              engine |-> engine, ret |-> r.ret, events |-> r.events]
  /\ UNCHANGED <<env, genai, peer, ss, widgets>>

AgentEvaluateStudentQuery ==
  /\ agent.alive
  /\ \E question \in Questions, query \in Queries, o \in FeedbackOutcomes :
       EvaluateStep(query, o, evaluate_student_query(agent, file, question, query, o),
                    sqlite_execute(agent.view, query))

AskStep(name, structured_output, o, r) ==
  /\ last' = [op |-> name, structured |-> structured_output, raised |-> r.raised,
              o |-> o, ret |-> r.ret, events |-> r.events]
  /\ UNCHANGED <<env, genai, file, agent, peer, ss, widgets>>

AgentExplainConcept ==
  /\ agent.alive
  /\ \E concept \in Concepts, o \in FeedbackOutcomes :
       AskStep("explain_concept", FALSE, o, explain_concept(concept, "beginner", o))

AgentGeneratePracticeProblem ==
  /\ agent.alive
  /\ \E topic \in Concepts, o \in PracticeOutcomes :
       AskStep("generate_practice_problem", FALSE, o,
               generate_practice_problem(topic, "easy", o))

AgentAskGemini ==
  /\ agent.alive
  /\ \E structured_output \in BOOLEAN, o \in Outcomes :
       AskStep("ask_gemini", structured_output, o,
               ask_gemini(<<"prompt">>, structured_output, o))

NextAgent ==
  \/ AgentInit
  \/ AgentExecuteSql
  \/ AgentEvaluateStudentQuery
  \/ AgentExplainConcept
  \/ AgentGeneratePracticeProblem
  \/ AgentAskGemini

SpecAgent == Init /\ [][NextAgent]_vars

----------------------------------------------------------------------------
(* app.py: one run of the script.  A run threads a record R through the   *)
(* script's sections; an uncaught exception (R.exc # <<>>) ends the run   *)
(* and keeps what the sections before it did.                             *)

Put(d, k, v) == [x \in (DOMAIN d) \cup {k} |-> IF x = k THEN v ELSE d[x]]

Raise(R, e) == [R EXCEPT !.exc = e]

Show(R, kind, v) == [R EXCEPT !.shown = Append(@, [kind |-> kind, v |-> v])]

Called(R, name, events) ==
  [R EXCEPT !.called = Append(@, name), !.events = @ \o events]

RunStart(sstate, w, ag, configured, store) ==
  [ss |-> sstate, w |-> w, agent |-> ag, genai |-> configured, file |-> store,
   exc |-> <<>>, called |-> <<>>, events |-> <<>>, shown |-> <<>>,
   rerun |-> FALSE, result |-> NoSession]

\* st.session_state.mentor: AttributeError when the key is absent
HasMentor(R) == "mentor" \in DOMAIN R.ss

NoMentorError == <<"AttributeError", "st.session_state has no attribute \"mentor\"">>

\* app.py:102-107, c being what SQLMentorAgent() came to
InitSessionWith(R, c) ==
  IF c.raised
    THEN Show([R EXCEPT !.ss = Put(@, "mentor_ready", FALSE)],
              "error", <<"Failed to initialize SQL Mentor: ">> \o c.exc)
    ELSE [R EXCEPT !.ss = Put(Put(@, "mentor", "SQLMentorAgent"), "mentor_ready", TRUE),
                   !.agent = c.agent, !.genai = c.genai, !.file = c.file]

\* app.py:100-107
InitSession(R, environ) ==
  IF "mentor" \in DOMAIN R.ss THEN R
  ELSE InitSessionWith(R, Construct("mentor", "", environ, R.genai, R.file))

\* a clear that drops the agent only
SessionClear_agent_only(R) ==
  [R EXCEPT !.ss = [k \in (DOMAIN R.ss) \ {"mentor", "mentor_ready"} |-> R.ss[k]],
            !.agent = NoAgent]

\* st.session_state.clear(): every key and every widget value is dropped;
\* the agent it held is released and its connection closed with it
SessionClear(R) ==
  [R EXCEPT !.ss = NoSession, !.w = DefaultWidgets, !.agent = NoAgent]

\* app.py:109-130; button = "reset" when Reset Session was pressed
Sidebar(R, button) ==
  IF R.exc # <<>> THEN R
  ELSE IF ~R.ss["mentor_ready"] THEN Show(R, "error", <<"Connection failed">>)
  ELSE IF button = "reset"
    THEN [SessionClear(Show(R, "progress", <<ToString(R.w.progress)>>))
            EXCEPT !.rerun = TRUE]
    ELSE Show(R, "progress", <<ToString(R.w.progress)>>)

HistoryOf(sstate) ==
  IF "learning_history" \in DOMAIN sstate THEN sstate["learning_history"] ELSE <<>>

\* app.py:152-163, explanation being what explain_concept returned
Tab1Explained(R, explanation) ==
  [Show(Called(R, "explain_concept", explanation.events),
        "explanation", explanation.ret.v)
     EXCEPT !.ss = Put(@, "learning_history",
       Append(HistoryOf(R.ss), [type |-> "concept", topic |-> R.w.concept,
                               content |-> explanation.ret]))]

\* app.py:144-163
Tab1(R, o) ==
  IF R.exc # <<>> \/ R.rerun \/ R.w.concept = "" THEN R
  ELSE IF ~HasMentor(R) THEN Raise(R, NoMentorError)
  ELSE Tab1Explained(R, explain_concept(R.w.concept, "beginner", o))

\* str.split(sep) on token texts: the segments between the occurrences of sep
RECURSIVE SplitFrom(_, _, _)
SplitFrom(rest, sep, cur) ==
  IF rest = <<>> THEN <<cur>>
  ELSE IF Head(rest) = sep
    THEN <<cur>> \o SplitFrom(Tail(rest), sep, <<>>)
    ELSE SplitFrom(Tail(rest), sep, Append(cur, Head(rest)))

Split(text, sep) == SplitFrom(text, sep, <<>>)

\* text.split(a)[1].split(b)[0] of a Python str; IndexError when a is absent
Between(text, a, b) ==
  LET parts == Split(text, a)
  IN IF Len(parts) < 2
       THEN [raised |-> TRUE, v |-> <<>>]
       ELSE [raised |-> FALSE, v |-> Split(parts[2], b)[1]]

IndexError == <<"IndexError", "list index out of range">>

\* str.lower() of the difficulty choices
Lower(x) ==
  CASE x = "Beginner" -> "beginner"
    [] x = "Intermediate" -> "intermediate"
    [] x = "Advanced" -> "advanced"
    [] OTHER -> x

\* a widget the run does not render loses its value
Unrendered(R) == [R EXCEPT !.w = [@ EXCEPT !.user_solution = ""]]

\* app.py:193-198, evaluation being what evaluate_student_query returned
Tab2Submitted(X, evaluation) ==
  Show([Called(X, "evaluate_student_query", evaluation.events)
          EXCEPT !.agent = evaluation.agent, !.file = evaluation.file],
       "feedback", evaluation.ret.v)

\* app.py:189-198: the solution area and its button.  st.button is true
\* only in the run its own click triggers, so button is one value per run.
Tab2Solution(X, statement, button, o) ==
  IF button # "submit" THEN X
  ELSE Tab2Submitted(X, evaluate_student_query(X.agent, X.file, statement,
                                               X.w.user_solution, o))

\* app.py:182-198: the problem statement, the hints, the solution area
Tab2Render(G, statement, hints, button, o) ==
  IF statement.raised THEN Unrendered(Raise(G, IndexError))
  ELSE IF hints.raised
    THEN Unrendered(Raise(Show(G, "problem", statement.v), IndexError))
  ELSE Tab2Solution(Show(Show(Show(G, "problem", statement.v), "hints", hints.v),
                         "submit_button", <<>>),
                    statement.v, button, o)

\* app.py:179-198, problem being what generate_practice_problem returned
Tab2Generated(R, problem, button, o) ==
  Tab2Render([Called(R, "generate_practice_problem", problem.events)
                EXCEPT !.ss = Put(@, "current_problem", problem.ret)],
             Between(problem.ret.v, "Problem:", "Hints:"),
             Between(problem.ret.v, "Hints:", "Solution:"), button, o)

\* app.py:165-200; button = "generate" when Generate Practice Problem was pressed
Tab2(R, button, o) ==
  IF R.exc # <<>> \/ R.rerun \/ button # "generate" THEN Unrendered(R)
  ELSE IF R.w.topic = ""
    THEN Unrendered(Show(R, "warning", <<"Please enter a topic to practice">>))
  ELSE IF ~HasMentor(R) THEN Unrendered(Raise(R, NoMentorError))
  ELSE Tab2Generated(R, generate_practice_problem(R.w.topic, Lower(R.w.difficulty), o),
                     button, o)

\* app.py:214-216, evaluation being what evaluate_student_query returned
Tab3Evaluated(R, evaluation) ==
  Show([Called(R, "evaluate_student_query", evaluation.events)
          EXCEPT !.agent = evaluation.agent, !.file = evaluation.file],
       "evaluation", evaluation.ret.v)

\* app.py:202-218; button = "evaluate" when Evaluate My Query was pressed
Tab3(R, button, o) ==
  IF R.exc # <<>> \/ R.rerun \/ button # "evaluate" THEN R
  ELSE IF R.w.user_query = "" THEN Show(R, "warning", <<"Please enter a query to evaluate">>)
  ELSE IF ~HasMentor(R) THEN Raise(R, NoMentorError)
  ELSE Tab3Evaluated(R, evaluate_student_query(R.agent, R.file, R.w.question,
                                               R.w.user_query, o))

\* pandas.read_json(path_or_buf): a JSON str is parsed into a frame; any
\* other object is no valid path or buffer (ValueError)
read_json(data) ==
  IF data.form = "json"
    THEN [raised |-> FALSE, exc |-> <<>>, rows |-> data.rows]
    ELSE [raised |-> TRUE,
          exc |-> <<"ValueError", "Invalid file path or buffer object type">>,
          rows |-> {}]

\* app.py:231-238: the table read from result["data"], or the error
Tab4Render(X, res) ==
  IF ~res.success THEN Show(Show(X, "error", <<"Query failed">>), "code", res.error)
  ELSE IF read_json(res.data).raised
    THEN Raise(Show(X, "success", <<"Query executed successfully!">>),
               read_json(res.data).exc)
    ELSE Show(Show(X, "success", <<"Query executed successfully!">>),
              "dataframe", <<ToString(read_json(res.data).rows)>>)

\* app.py:230-238, result being what execute_sql returned
Tab4Executed(R, result) ==
  Tab4Render([Called(R, "execute_sql", result.events)
                EXCEPT !.agent = result.agent, !.file = result.file,
                       !.result = result.ret],
             result.ret)

\* app.py:220-240; button = "execute" when Execute Query was pressed
Tab4(R, button) ==
  IF R.exc # <<>> \/ R.rerun \/ button # "execute" THEN R
  ELSE IF R.w.query = "" THEN Show(R, "warning", <<"Please enter a query to execute">>)
  ELSE IF ~HasMentor(R) THEN Raise(R, NoMentorError)
  ELSE Tab4Executed(R, execute_sql(R.agent, R.file, R.w.query))

\* one pass over the script
ScriptPass(R, environ, button, o1, o2) ==
  Tab4(Tab3(Tab2(Tab1(Sidebar(InitSession(R, environ), button), o1), button, o2),
            button, o2), button)

\* st.rerun() after a reset starts the script over with no button pressed;
\* the page shows what the new pass renders
Rerun(first, environ, o1, o2) ==
  IF first.rerun
    THEN ScriptPass([first EXCEPT !.rerun = FALSE, !.shown = <<>>],
                    environ, "none", o1, o2)
    ELSE first

\* a run of the script
RunScript(R, environ, button, o1, o2) ==
  Rerun(ScriptPass(R, environ, button, o1, o2), environ, o1, o2)

----------------------------------------------------------------------------
(* The UI session: every user interaction reruns the script *)

\* what the user types or selects (Difficulties: two of the three choices)
Topics == {"", "JOIN"}

Difficulties == {"Beginner", "Advanced"}

Intents == {"", "list all students"}

EvaluatorQueries == {"", "SELECT * FROM nonexistent_table"}

RunnerQueries == {"", "SELECT * FROM students", "DROP TABLE students"}

Solutions == {"", "SELECT * FROM students"}

ProgressValues == {25, 60}

AnyOutcome == CHOOSE o \in Outcomes : o.body = Feedback

\* the session after a run that ended as R
UIStep(w, button, o2, R) ==
  /\ Len(HistoryOf(R.ss)) <= MaxHistory
  /\ ss' = R.ss
  /\ widgets' = R.w
  /\ agent' = R.agent
  /\ genai' = R.genai
  /\ file' = R.file
  /\ last' = [op |-> "run", button |-> button, exc |-> R.exc,
              called |-> R.called, events |-> R.events, shown |-> R.shown,
              result |-> R.result, o2 |-> o2,
              had |-> [history |-> Len(HistoryOf(ss)),
                       problem |-> "current_problem" \in DOMAIN ss,
                       progress |-> w.progress]]
  /\ UNCHANGED <<env, peer>>

\* the script run an interaction triggers, with the widget values w and the
\* pressed button; o1 and o2 are the outcomes of the model calls it makes
UIRun(w, button) ==
  \E o1 \in (IF w.concept # "" /\ button # "reset" THEN FeedbackOutcomes ELSE {AnyOutcome}),
     o2 \in (IF button = "generate" /\ w.topic # "" THEN PracticeOutcomes
             ELSE IF button = "evaluate" /\ w.user_query # "" THEN FeedbackOutcomes
             ELSE {AnyOutcome}) :
    UIStep(w, button, o2,
           RunScript(RunStart(ss, w, agent, genai, file), env, button, o1, o2))

Started == "mentor_ready" \in DOMAIN ss

\* the page is opened
SessionStart == ~Started /\ UIRun(widgets, "none")

EnterConcept ==
  /\ Started
  /\ \E v \in Topics : v # widgets.concept /\ UIRun([widgets EXCEPT !.concept = v], "none")

EnterTopic ==
  /\ Started
  /\ \E v \in Topics : v # widgets.topic /\ UIRun([widgets EXCEPT !.topic = v], "none")

SelectDifficulty ==
  /\ Started
  /\ \E v \in Difficulties :
       v # widgets.difficulty /\ UIRun([widgets EXCEPT !.difficulty = v], "none")

EnterQuestion ==
  /\ Started
  /\ \E v \in Intents : v # widgets.question /\ UIRun([widgets EXCEPT !.question = v], "none")

EnterUserQuery ==
  /\ Started
  /\ \E v \in EvaluatorQueries :
       v # widgets.user_query /\ UIRun([widgets EXCEPT !.user_query = v], "none")

EnterQuery ==
  /\ Started
  /\ \E v \in RunnerQueries : v # widgets.query /\ UIRun([widgets EXCEPT !.query = v], "none")

\* the slider and the reset button exist only in a connected sidebar
MoveSlider ==
  /\ Started /\ ss["mentor_ready"]
  /\ \E v \in ProgressValues :
       v # widgets.progress /\ UIRun([widgets EXCEPT !.progress = v], "none")

PressReset == Started /\ ss["mentor_ready"] /\ UIRun(widgets, "reset")

PressGenerate == Started /\ UIRun(widgets, "generate")

PressEvaluate == Started /\ UIRun(widgets, "evaluate")

PressExecute == Started /\ UIRun(widgets, "execute")

\* the solution area and its button are on the page only after a run that
\* rendered them
SolutionAreaShown ==
  /\ Started /\ last.op = "run"
  /\ \E i \in 1..Len(last.shown) : last.shown[i].kind = "submit_button"

\* the user types a solution and leaves the text area
EnterSolution ==
  /\ SolutionAreaShown
  /\ \E v \in Solutions \ {""} : UIRun([widgets EXCEPT !.user_solution = v], "none")

\* the user presses Submit Solution, the solution area holding v
PressSubmit ==
  /\ SolutionAreaShown
  /\ \E v \in Solutions : UIRun([widgets EXCEPT !.user_solution = v], "submit")

NextUI ==
  \/ SessionStart
  \/ EnterConcept
  \/ EnterTopic
  \/ SelectDifficulty
  \/ EnterQuestion
  \/ EnterUserQuery
  \/ EnterQuery
  \/ MoveSlider
  \/ PressReset
  \/ PressGenerate
  \/ PressEvaluate
  \/ PressExecute
  \/ EnterSolution
  \/ PressSubmit

SpecUI == Init /\ [][NextUI]_vars

----------------------------------------------------------------------------
(* Two UI sessions of one process.  Each session's first script run        *)
(* constructs its own SQLMentorAgent (app.py:100-107); every agent opens   *)
(* db_path = "sample.db" (mentor.py:10, 38), so the connections differ and *)
(* the file is one.                                                        *)

Sessions == {1, 2}

SessionAgent(s) == IF s = 1 THEN agent ELSE peer

OtherSession(s) == IF s = 1 THEN 2 ELSE 1

\* what a query on the connection of ag is answered from: its own
\* uncommitted view inside a transaction, the committed file outside
SeenBy(ag, store) == IF ag.alive /\ ag.in_transaction THEN ag.view ELSE store

\* the statement needs the file's write lock
WritesStore(view, q) ==
  \/ Parse(q).kind \in {"insert", "delete", "drop"} /\ Parse(q).table \in DOMAIN view
  \/ Parse(q).kind = "create" /\ Parse(q).table \notin DOMAIN view

\* sqlite with a second connection on the file: a write is refused while
\* the other connection holds an open transaction
sqlite_execute_shared(view, q, other) ==
  IF other.alive /\ other.in_transaction /\ WritesStore(view, q)
    THEN [ok |-> FALSE, err |-> <<"database is locked">>, described |-> FALSE,
          rows |-> {}, view |-> view, dml |-> FALSE]
    ELSE sqlite_execute(view, q)

\* execute_sql of the agent ag while the agent other has the file open too
execute_sql_shared(ag, store, query, other) ==
  execute_sql_caught(ag.module, query,
    read_sql_result(query, [ag EXCEPT !.view = SeenBy(ag, store)], store,
                    sqlite_execute_shared(SeenBy(ag, store), query, other)))

\* app.py:100-107 in session s, c being what SQLMentorAgent() came to
SessionOpenStep(s, c) ==
  /\ agent' = IF s = 1 /\ ~c.raised THEN c.agent ELSE agent
  /\ peer' = IF s = 2 /\ ~c.raised THEN c.agent ELSE peer
  /\ genai' = c.genai
  /\ file' = c.file
  /\ last' = [op |-> "session_open", session |-> s, raised |-> c.raised,
              found |-> file]
  /\ UNCHANGED <<env, ss, widgets>>

SessionOpen ==
  \E s \in Sessions :
    /\ ~SessionAgent(s).alive
    /\ SessionOpenStep(s, Construct("mentor", "", env, genai, file))

\* app.py:230 in session s, r being what execute_sql returned
SessionExecuteSqlStep(s, query, r) ==
  /\ agent' = IF s = 1 THEN r.agent ELSE agent
  /\ peer' = IF s = 2 THEN r.agent ELSE peer
  /\ file' = r.file
  /\ last' = [op |-> "session_execute_sql", session |-> s, query |-> query,
              ret |-> r.ret,
              other_saw |-> SeenBy(SessionAgent(OtherSession(s)), file)]
  /\ UNCHANGED <<env, genai, ss, widgets>>

SessionExecuteSql ==
  \E s \in Sessions, query \in Queries :
    /\ SessionAgent(s).alive
    /\ SessionExecuteSqlStep(s, query,
         execute_sql_shared(SessionAgent(s), file, query,
                            SessionAgent(OtherSession(s))))

NextSessions ==
  \/ SessionOpen
  \/ SessionExecuteSql

SpecSessions == Init /\ [][NextSessions]_vars

----------------------------------------------------------------------------
(* sql_agent.py: the line-oriented command interface.  A line of input is  *)
(* the sequence of its characters.                                         *)

\* the texts typed at the prompt or passed on by the interface, each with
\* its characters
Spelling == {
    <<"exit",
      <<"e", "x", "i", "t">> >>,
    <<"Exit",
      <<"E", "x", "i", "t">> >>,
    <<"help",
      <<"h", "e", "l", "p">> >>,
    <<"hello",
      <<"h", "e", "l", "l", "o">> >>,
    <<"explain JOIN",
      <<"e", "x", "p", "l", "a", "i", "n", " ", "J", "O", "I", "N">> >>,
    <<"practice JOIN",
      <<"p", "r", "a", "c", "t", "i", "c", "e", " ", "J", "O", "I", "N">> >>,
    <<"query",
      <<"q", "u", "e", "r", "y">> >>,
    <<"query SELECT * FROM students",
      <<"q", "u", "e", "r", "y", " ", "S", "E", "L", "E", "C", "T", " ",
        "*", " ", "F", "R", "O", "M", " ", "s", "t", "u", "d", "e", "n",
        "t", "s">> >>,
    <<"  query select * from students  ",
      <<" ", " ", "q", "u", "e", "r", "y", " ", "s", "e", "l", "e", "c",
        "t", " ", "*", " ", "f", "r", "o", "m", " ", "s", "t", "u", "d",
        "e", "n", "t", "s", " ", " ">> >>,
    <<"query SELECT * FROM students WHERE name = 'Bob Smith'",
      <<"q", "u", "e", "r", "y", " ", "S", "E", "L", "E", "C", "T", " ",
        "*", " ", "F", "R", "O", "M", " ", "s", "t", "u", "d", "e", "n",
        "t", "s", " ", "W", "H", "E", "R", "E", " ", "n", "a", "m", "e",
        " ", "=", " ", "'", "B", "o", "b", " ", "S", "m", "i", "t", "h",
        "'">> >>,
    <<"query DROP TABLE students",
      <<"q", "u", "e", "r", "y", " ", "D", "R", "O", "P", " ", "T", "A",
        "B", "L", "E", " ", "s", "t", "u", "d", "e", "n", "t", "s">> >>,
    <<"query DELETE FROM enrollments",
      <<"q", "u", "e", "r", "y", " ", "D", "E", "L", "E", "T", "E", " ",
        "F", "R", "O", "M", " ", "e", "n", "r", "o", "l", "l", "m", "e",
        "n", "t", "s">> >>,
    <<"evaluate SELECT * FROM students WHERE name = 'Bob Smith'",
      <<"e", "v", "a", "l", "u", "a", "t", "e", " ", "S", "E", "L", "E",
        "C", "T", " ", "*", " ", "F", "R", "O", "M", " ", "s", "t", "u",
        "d", "e", "n", "t", "s", " ", "W", "H", "E", "R", "E", " ", "n",
        "a", "m", "e", " ", "=", " ", "'", "B", "o", "b", " ", "S", "m",
        "i", "t", "h", "'">> >>,
    <<"list all students",
      <<"l", "i", "s", "t", " ", "a", "l", "l", " ", "s", "t", "u", "d",
        "e", "n", "t", "s">> >>,
    <<"join",
      <<"j", "o", "i", "n">> >>,
    <<"SELECT * FROM students",
      <<"S", "E", "L", "E", "C", "T", " ", "*", " ", "F", "R", "O", "M",
        " ", "s", "t", "u", "d", "e", "n", "t", "s">> >>,
    <<"select * from students",
      <<"s", "e", "l", "e", "c", "t", " ", "*", " ", "f", "r", "o", "m",
        " ", "s", "t", "u", "d", "e", "n", "t", "s">> >>,
    <<"SELECT * FROM students WHERE name = 'Bob Smith'",
      <<"S", "E", "L", "E", "C", "T", " ", "*", " ", "F", "R", "O", "M",
        " ", "s", "t", "u", "d", "e", "n", "t", "s", " ", "W", "H", "E",
        "R", "E", " ", "n", "a", "m", "e", " ", "=", " ", "'", "B", "o",
        "b", " ", "S", "m", "i", "t", "h", "'">> >>,
    <<"select * from students where name = 'bob smith'",
      <<"s", "e", "l", "e", "c", "t", " ", "*", " ", "f", "r", "o", "m",
        " ", "s", "t", "u", "d", "e", "n", "t", "s", " ", "w", "h", "e",
        "r", "e", " ", "n", "a", "m", "e", " ", "=", " ", "'", "b", "o",
        "b", " ", "s", "m", "i", "t", "h", "'">> >>,
    <<"DROP TABLE students",
      <<"D", "R", "O", "P", " ", "T", "A", "B", "L", "E", " ", "s", "t",
        "u", "d", "e", "n", "t", "s">> >>,
    <<"drop table students",
      <<"d", "r", "o", "p", " ", "t", "a", "b", "l", "e", " ", "s", "t",
        "u", "d", "e", "n", "t", "s">> >>,
    <<"DELETE FROM enrollments",
      <<"D", "E", "L", "E", "T", "E", " ", "F", "R", "O", "M", " ", "e",
        "n", "r", "o", "l", "l", "m", "e", "n", "t", "s">> >>,
    <<"delete from enrollments",
      <<"d", "e", "l", "e", "t", "e", " ", "f", "r", "o", "m", " ", "e",
        "n", "r", "o", "l", "l", "m", "e", "n", "t", "s">> >>,
    <<"explain",
      <<"e", "x", "p", "l", "a", "i", "n">> >>,
    <<"practice",
      <<"p", "r", "a", "c", "t", "i", "c", "e">> >>,
    <<"evaluate",
      <<"e", "v", "a", "l", "u", "a", "t", "e">> >> }

Chars(text) == (CHOOSE p \in Spelling : p[1] = text)[2]

\* the str a character sequence is
Join(cs) == (CHOOSE p \in Spelling : p[2] = cs)[1]

LowerChar(c) ==
  CASE c = "A" -> "a"
    [] c = "B" -> "b"
    [] c = "C" -> "c"
    [] c = "D" -> "d"
    [] c = "E" -> "e"
    [] c = "F" -> "f"
    [] c = "G" -> "g"
    [] c = "H" -> "h"
    [] c = "I" -> "i"
    [] c = "J" -> "j"
    [] c = "K" -> "k"
    [] c = "L" -> "l"
    [] c = "M" -> "m"
    [] c = "N" -> "n"
    [] c = "O" -> "o"
    [] c = "P" -> "p"
    [] c = "Q" -> "q"
    [] c = "R" -> "r"
    [] c = "S" -> "s"
    [] c = "T" -> "t"
    [] c = "U" -> "u"
    [] c = "V" -> "v"
    [] c = "W" -> "w"
    [] c = "X" -> "x"
    [] c = "Y" -> "y"
    [] c = "Z" -> "z"
    [] OTHER -> c

\* str.lower()
lower(cs) == [i \in 1..Len(cs) |-> LowerChar(cs[i])]

RECURSIVE lstrip(_)
lstrip(cs) == IF cs # <<>> /\ Head(cs) = " " THEN lstrip(Tail(cs)) ELSE cs

RECURSIVE rstrip(_)
rstrip(cs) ==
  IF cs # <<>> /\ cs[Len(cs)] = " " THEN rstrip(SubSeq(cs, 1, Len(cs) - 1)) ELSE cs

\* str.strip()
strip(cs) == rstrip(lstrip(cs))

\* str.startswith(prefix)
startswith(cs, prefix) ==
  Len(cs) >= Len(prefix) /\ SubSeq(cs, 1, Len(prefix)) = prefix

\* cs[n:]
From(cs, n) == SubSeq(cs, n + 1, Len(cs))

\* what one pass of the loop came to: the command recognised, the argument
\* cut from the line, the agent operations called, and whether the loop ended
CliOutcome(command, arg, called, x, done) ==
  [command |-> command, arg |-> arg, called |-> called, events |-> x.events,
   ret |-> x.ret, agent |-> x.agent, file |-> x.file, done |-> done]

\* a branch that only prints
Printed(ag, store, message) ==
  [events |-> <<>>, ret |-> Str(<<message>>), agent |-> ag, file |-> store]

\* a branch that prints what a model call (r) returned
Asked(ag, store, r) ==
  [events |-> r.events, ret |-> r.ret, agent |-> ag, file |-> store]

\* sql_agent.py:230-236
cli_explain(ag, store, concept, o) ==
  IF concept = <<>>
    THEN CliOutcome("explain", concept, <<>>,
                    Printed(ag, store, "Please specify a concept to explain"), FALSE)
    ELSE CliOutcome("explain", concept, <<"explain_concept">>,
                    Asked(ag, store, explain_concept(Join(concept), "beginner", o)),
                    FALSE)

\* sql_agent.py:238-244
cli_practice(ag, store, topic, o) ==
  IF topic = <<>>
    THEN CliOutcome("practice", topic, <<>>,
                    Printed(ag, store, "Please specify a topic"), FALSE)
    ELSE CliOutcome("practice", topic, <<"generate_practice_problem">>,
                    Asked(ag, store, generate_practice_problem(Join(topic), "easy", o)),
                    FALSE)

\* sql_agent.py:246-253; question is the line the second input() reads
cli_evaluate(ag, store, query, question, o) ==
  IF query = <<>>
    THEN CliOutcome("evaluate", query, <<>>,
                    Printed(ag, store, "Please provide a query to evaluate"), FALSE)
    ELSE CliOutcome("evaluate", query, <<"evaluate_student_query">>,
                    evaluate_student_query(ag, store, Join(strip(question)),
                                           Join(query), o),
                    FALSE)

\* sql_agent.py:255-267
cli_query(ag, store, query) ==
  IF query = <<>>
    THEN CliOutcome("query", query, <<>>,
                    Printed(ag, store, "Please provide a query to run"), FALSE)
    ELSE CliOutcome("query", query, <<"execute_sql">>,
                    execute_sql(ag, store, Join(query)), FALSE)

\* sql_agent.py:217-270, user_input being what line 215 made of the line
cli_command(ag, store, user_input, question, o) ==
  IF startswith(user_input, Chars("exit"))
    THEN CliOutcome("exit", <<>>, <<>>,
                    Printed(ag, store, "Goodbye! Happy learning!"), TRUE)
  ELSE IF startswith(user_input, Chars("help"))
    THEN CliOutcome("help", <<>>, <<>>,
                    Printed(ag, store, "Available commands:"), FALSE)
  ELSE IF startswith(user_input, Chars("explain"))
    THEN cli_explain(ag, store, strip(From(user_input, 8)), o)
  ELSE IF startswith(user_input, Chars("practice"))
    THEN cli_practice(ag, store, strip(From(user_input, 8)), o)
  ELSE IF startswith(user_input, Chars("evaluate"))
    THEN cli_evaluate(ag, store, strip(From(user_input, 8)), question, o)
  ELSE IF startswith(user_input, Chars("query"))
    THEN cli_query(ag, store, strip(From(user_input, 5)))
  ELSE CliOutcome("unknown", <<>>, <<>>,
                  Printed(ag, store, "I didn't understand that."), FALSE)

\* one pass of the loop of interactive_learning on the line typed
interactive_learning(ag, store, line, question, o) ==
  cli_command(ag, store, lower(strip(line)), question, o)

\* the lines typed at the prompt
CliLines == {
  Chars("exit"), Chars("Exit"), Chars("help"), Chars("hello"),
  Chars("explain JOIN"), Chars("practice JOIN"), Chars("query"),
  Chars("query SELECT * FROM students"),
  Chars("  query select * from students  "),
  Chars("query SELECT * FROM students WHERE name = 'Bob Smith'"),
  Chars("query DROP TABLE students"),
  Chars("query DELETE FROM enrollments"),
  Chars("evaluate SELECT * FROM students WHERE name = 'Bob Smith'") }

CliQuestions == {Chars("list all students")}

\* main(): the agent is constructed and the loop entered; a constructor
\* that raises is reported and the program ends
CliMain ==
  /\ ~agent.alive
  /\ InitStep("", Construct("sql_agent", "", env, genai, file))

\* the loop has read a line and, for evaluate, a second one; when the loop
\* ends main's finally closes the agent (uncommitted work is discarded)
CliStep(line, question, o, c) ==
  /\ agent' = IF c.done THEN NoAgent ELSE c.agent
  /\ file' = c.file
  /\ last' = [op |-> "cli", line |-> line, command |-> c.command, arg |-> c.arg,
              called |-> c.called, events |-> c.events, ret |-> c.ret,
              o |-> IF c.called \in {<<>>, <<"execute_sql">>} THEN AnyOutcome ELSE o,
              before |-> [agent |-> agent, file |-> file]]
  /\ UNCHANGED <<env, genai, peer, ss, widgets>>

CliInput ==
  /\ agent.alive
  /\ \E line \in CliLines, question \in CliQuestions, o \in Outcomes :
       CliStep(line, question, o, interactive_learning(agent, file, line, question, o))

\* input() at end of input raises EOFError: main reports it and closes
CliEndOfInput ==
  /\ agent.alive
  /\ agent' = NoAgent
  /\ last' = [op |-> "cli_eof", exc |-> <<"EOFError">>]
  /\ UNCHANGED <<env, genai, file, peer, ss, widgets>>

NextCLI ==
  \/ CliMain
  \/ CliInput
  \/ CliEndOfInput

SpecCLI == Init /\ [][NextCLI]_vars

----------------------------------------------------------------------------
(* Properties *)

Rows(store, t) == IF t \in DOMAIN store THEN Cardinality(store[t]) ELSE 0

Contains(text, sub) ==
  \E i \in 1..(Len(text) - Len(sub) + 1) : SubSeq(text, i, i + Len(sub) - 1) = sub

Lacks(text, token) == \A i \in 1..Len(text) : text[i] # token

HasShown(kind) == \E i \in 1..Len(last.shown) : last.shown[i].kind = kind

Booted == last.op = "__init__" /\ last.ran_boot

\* C1: the bootstrap on a fresh empty store leaves 5 students, 4 courses and
\* 8 enrollments rows, and a bootstrap on a store that already holds the
\* three tables leaves the three row counts as they were.
C1_SeedingIdempotent ==
  Booted =>
    /\ last.found = NoTables =>
         /\ Rows(file, "students") = 5
         /\ Rows(file, "courses") = 4
         /\ Rows(file, "enrollments") = 8
    /\ DOMAIN SeededStore \subseteq DOMAIN last.found =>
         \A t \in DOMAIN SeededStore : Rows(file, t) = Rows(last.found, t)

\* a second bootstrap has run on the store the first one seeded
C1_Witness == Booted /\ last.found = SeededStore /\ file = SeededStore

\* C2: a query the engine rejects makes execute_sql return, without raising,
\* a result with success = false, a non-empty error text and no data.
C2_RejectedQueryIsReported ==
  (last.op = "execute_sql" /\ last.rejected) =>
    /\ ~last.raised
    /\ last.ret.success = FALSE
    /\ "error" \in DOMAIN last.ret
    /\ last.ret.error # <<>>
    /\ "data" \notin DOMAIN last.ret

\* a constraint violation has been reported
C2_Witness ==
  /\ last.op = "execute_sql" /\ last.rejected
  /\ Parse(last.query).kind = "insert"
  /\ last.ret.success = FALSE

\* C3: evaluate_student_query runs the query before it sends the prompt; when
\* the execution failed the prompt holds "Failed" followed by the error text
\* (the engine's message when the engine rejected the query); the operation
\* returns what the model call returned and does not raise.
C3_ExecutesThenAsks ==
  last.op = "evaluate_student_query" =>
    /\ ~last.raised
    /\ Len(last.events) = 2
    /\ last.events[1] = ExecuteEvent(last.query)
    /\ last.events[2].ev = "generate_content"
    /\ ~last.executed.success =>
         /\ Contains(last.events[2].arg, <<"Failed: ">> \o last.executed.error)
         /\ ~last.engine.ok => Contains(last.executed.error, last.engine.err)
    /\ last.ret = ask_gemini(last.events[2].arg, FALSE, last.o).ret
    /\ last.o.kind = "ok" => last.ret = Str(last.o.body)

\* a query with a syntax error has been evaluated and feedback returned
C3_Witness ==
  /\ last.op = "evaluate_student_query"
  /\ Parse(last.query).kind = "syntax"
  /\ ~last.executed.success
  /\ last.ret = Str(Feedback)

\* C5: a construction with no key argument and no key in the environment
\* raises, creates no agent and configures no model client; an agent that
\* exists is fully built, with a configured client.
C5_NoKeyNoAgent ==
  /\ [][(last'.op = "__init__" /\ last'.api_key = "" /\ env = "")
          => (last'.raised /\ agent' = agent /\ genai' = genai /\ file' = file)]_vars
  /\ [](agent.alive => (genai # "" /\ DOMAIN agent = DOMAIN NewAgent("mentor", NoTables)))

\* a construction without key has failed and there is no agent
C5_Witness ==
  /\ last.op = "__init__" /\ last.api_key = "" /\ env = ""
  /\ last.raised /\ ~agent.alive /\ genai = ""

\* C8: ask_gemini calls the service once and never raises: a transport
\* failure, and in structured mode a body that does not parse, become
\* {"error": text} in structured mode and "Error: " + text otherwise; a
\* successful non-structured call returns the response text unchanged.
C8_SingleAttemptNoEscape ==
  last.op = "ask_gemini" =>
    /\ ~last.raised
    /\ Len(last.events) = 1 /\ last.events[1].ev = "generate_content"
    /\ last.o.kind = "fail" =>
         last.ret = IF last.structured THEN Dict([error |-> last.o.body])
                    ELSE Str(<<"Error: ">> \o last.o.body)
    /\ (last.o.kind = "ok" /\ ~last.structured) => last.ret = Str(last.o.body)
    /\ (last.o.kind = "ok" /\ last.structured /\ ~json_loads(last.o.body).ok) =>
         last.ret = Dict([error |-> json_loads(last.o.body).err])

\* a structured call whose body did not parse has returned an error value
C8_Witness ==
  /\ last.op = "ask_gemini" /\ last.structured /\ last.o.kind = "ok"
  /\ ~json_loads(last.o.body).ok
  /\ last.ret.py = "dict" /\ DOMAIN last.ret.v = {"error"}

\* C10: a construction creates the three tables and inserts the seed rows
\* exactly when the store it finds holds no table; when it finds any table
\* it runs no CREATE and no INSERT and leaves the store as found.
C10_BootstrapOnlyOnEmptyStore ==
  Booted =>
    /\ (last.boot.creates > 0 \/ last.boot.inserts > 0) <=> (DOMAIN last.found = {})
    /\ DOMAIN last.found = {} =>
         (last.boot.creates = 3 /\ last.boot.inserts = 3 /\ file = SeededStore)
    /\ DOMAIN last.found # {} =>
         (last.boot.creates = 0 /\ last.boot.inserts = 0 /\ file = last.found
          /\ agent.view = last.found)

\* a construction has found a partial schema and left it alone
C10_Witness ==
  /\ Booted
  /\ DOMAIN last.found # {}
  /\ (DOMAIN SeededStore) \ (DOMAIN last.found) # {}
  /\ file = last.found

HasCalled(name) == \E i \in 1..Len(last.called) : last.called[i] = name

Malformed(text) ==
  Lacks(text, "Problem:") \/ Lacks(text, "Hints:") \/ Lacks(text, "Solution:")

\* C4: when the text generate_practice_problem returned lacks one of the
\* markers "Problem:", "Hints:", "Solution:", the practice-problem panel
\* shows a handled error and the run ends without an uncaught exception.
C4_MalformedProblemHandled ==
  (last.op = "run" /\ HasCalled("generate_practice_problem")
     /\ Malformed(ss["current_problem"].v)) =>
    (last.exc = <<>> /\ HasShown("error"))

\* C6: once the construction has failed (mentor_ready = false), no run of
\* the script calls an agent operation or ends in an uncaught exception.
C6_DisabledStateCrashFree ==
  (last.op = "run" /\ ~ss["mentor_ready"]) => (last.exc = <<>> /\ last.called = <<>>)

C9_EveryResultRendered ==
  (last.op = "run" /\ HasCalled("execute_sql")) =>
    /\ last.exc = <<>>
    /\ last.result.success => HasShown("dataframe")
    /\ ~last.result.success =>
         \E i \in 1..Len(last.shown) :
           last.shown[i] = [kind |-> "code", v |-> last.result.error]

PanelOperation(button) ==
  CASE button = "generate" -> "generate_practice_problem"
    [] button = "evaluate" -> "evaluate_student_query"
    [] button = "execute" -> "execute_sql"
    [] OTHER -> "none"

\* C11: the script run a button press triggers calls no agent operation of
\* another panel than the button's, and appends no learning-history entry:
\* explain_concept runs once per concept lookup, not once per rerun.
C11_OneOperationPerInteraction ==
  (last.op = "run" /\ last.button \in {"generate", "evaluate", "execute"}) =>
    /\ \A i \in 1..Len(last.called) : last.called[i] = PanelOperation(last.button)
    /\ Len(HistoryOf(ss)) = last.had.history

\* C13: an execute_sql that returns success = false leaves the store as the
\* next query on the same agent sees it (schema and contents) unchanged.
C13_FailedQueryChangesNothing ==
  (last.op = "execute_sql" /\ ~last.ret.success) => agent.view = last.before

\* C14: the run that pressing Submit Solution triggers, on a page showing a
\* generated problem, calls evaluate_student_query and displays the feedback.
C14_SubmitReachesEvaluation ==
  (last.op = "run" /\ last.button = "submit") =>
    /\ HasCalled("evaluate_student_query")
    /\ HasShown("feedback")

\* C12: a statement one session executes through execute_sql is not
\* applied to the store the other session's agent queries.
C12_SessionsHaveOwnStore ==
  (last.op = "session_execute_sql" /\ SessionAgent(OtherSession(last.session)).alive) =>
    SeenBy(SessionAgent(OtherSession(last.session)), file) = last.other_saw

\* the text after the first n characters of the line as typed, without
\* surrounding whitespace
TypedArgument(line, n) == strip(From(strip(line), n))

\* C15: the command interface hands execute_sql / evaluate_student_query the
\* text after the command word exactly as typed (surrounding whitespace
\* apart), so a query gives the result the same text gives when passed to
\* execute_sql directly; and exit ends the loop with no agent operation.
C15_CliPassesTextVerbatim ==
  last.op = "cli" =>
    /\ (last.command = "query" /\ last.called # <<>>) =>
         /\ last.arg = TypedArgument(last.line, 5)
         /\ last.ret = execute_sql(last.before.agent, last.before.file,
                                   Join(TypedArgument(last.line, 5))).ret
    /\ (last.command = "evaluate" /\ last.called # <<>>) =>
         last.arg = TypedArgument(last.line, 8)
    /\ last.command = "exit" => (last.called = <<>> /\ ~agent.alive)

====
